---- MODULE Spec2Model ----
(***************************************************************************)
(* Model of the event recommender: the lexical pipeline of the web app     *)
(* (rec-mvp-web/src/App.tsx, getSuggestions) and the semantic pipeline of  *)
(* the server (rec-mvp/server/api/suggest.ts, handler), with the text,     *)
(* time and Jaccard helpers both are built from.                           *)
(*                                                                         *)
(* Strings are sequences of one-character strings, so that normalizeWord,  *)
(* split and includes work on characters as the code does.  Timestamps are *)
(* the milliseconds Date.parse returns.  A quotient of two numbers is kept *)
(* as the pair <<numerator, denominator>>; a score, which sums quotients   *)
(* and a logarithm, is kept in fixed point, Unit parts to one.             *)
(***************************************************************************)
EXTENDS Integers, Sequences, FiniteSets, TLC

Max(a, b) == IF a >= b THEN a ELSE b
Min(a, b) == IF a <= b THEN a ELSE b

\* Largest tick of the timestamps timeFit is called on.
MaxTick == 5
\* Longest token list handed to the Jaccard functions.
MaxTokens == 3
\* Milliseconds between two ticks: half a second, so that a window can be
\* shorter than the one second timeFit clamps its span to.
TickMs == 1000 \div 2
Times == {i * TickMs : i \in 0..MaxTick}

----------------------------------------------------------------------------
(* Strings *)

UpperAlpha == <<"A","B","C","D","E","F","G","H","I","J","K","L","M",
                "N","O","P","Q","R","S","T","U","V","W","X","Y","Z">>
LowerAlpha == <<"a","b","c","d","e","f","g","h","i","j","k","l","m",
                "n","o","p","q","r","s","t","u","v","w","x","y","z">>
DigitChars == {"0","1","2","3","4","5","6","7","8","9"}
\* What the regular expression class \s matches, among the characters used.
Whitespace == {" ", "\t", "\n"}

Range(f) == {f[i] : i \in DOMAIN f}

UpperChars == Range(UpperAlpha)
LowerOf == [c \in UpperChars |->
              LowerAlpha[CHOOSE j \in DOMAIN UpperAlpha : UpperAlpha[j] = c]]

\* String.prototype.toLowerCase
toLowerCase(s) ==
  [i \in DOMAIN s |-> IF s[i] \in UpperChars THEN LowerOf[s[i]] ELSE s[i]]

\* The characters the class [a-z0-9\s] holds.
KeptChars == Range(LowerAlpha) \cup DigitChars \cup Whitespace

\* s.replace(/[^a-z0-9\s]/g, ' ')
replaceNonAlnum(s) ==
  [i \in DOMAIN s |-> IF s[i] \in KeptChars THEN s[i] ELSE " "]

RECURSIVE trimStart(_)
trimStart(s) ==
  IF s # <<>> /\ Head(s) \in Whitespace THEN trimStart(Tail(s)) ELSE s

RECURSIVE trimEnd(_)
trimEnd(s) ==
  IF s # <<>> /\ s[Len(s)] \in Whitespace
  THEN trimEnd(SubSeq(s, 1, Len(s) - 1)) ELSE s

\* String.prototype.trim
trim(s) == trimEnd(trimStart(s))

\* The first statement of normalizeWord: lower-case, strip, trim.
cleanWord(w) == trim(replaceNonAlnum(toLowerCase(w)))

\* The mutant of normalizeWord that tests the length left after the removal.
normalizeWordResultLen(w) ==
  LET s == cleanWord(w)
  IN IF s # <<>> /\ s[Len(s)] = "s" /\ Len(s) - 1 > 3
     THEN SubSeq(s, 1, Len(s) - 1) ELSE s

normalizeWord(w) ==
  LET s == cleanWord(w)
  IN IF s # <<>> /\ s[Len(s)] = "s" /\ Len(s) > 3
     THEN SubSeq(s, 1, Len(s) - 1) ELSE s

\* text.split(/\s+/).filter(Boolean): the maximal runs of non-whitespace.
RECURSIVE splitWs(_, _, _)
splitWs(s, cur, acc) ==
  IF s = <<>> THEN (IF cur = <<>> THEN acc ELSE Append(acc, cur))
  ELSE IF Head(s) \in Whitespace
       THEN splitWs(Tail(s), <<>>, IF cur = <<>> THEN acc ELSE Append(acc, cur))
       ELSE splitWs(Tail(s), Append(cur, Head(s)), acc)

tokenizeText(text) == splitWs(normalizeWord(text), <<>>, <<>>)

\* a.includes(b)
includes(a, b) ==
  \E i \in 0..(Len(a) - Len(b)) : SubSeq(a, i + 1, i + Len(b)) = b

\* arr.join(sep)
RECURSIVE join(_, _)
join(arr, sep) ==
  IF arr = <<>> THEN <<>>
  ELSE IF Len(arr) = 1 THEN arr[1]
  ELSE arr[1] \o sep \o join(Tail(arr), sep)

RECURSIVE flatten(_)
flatten(ss) == IF ss = <<>> THEN <<>> ELSE Head(ss) \o flatten(Tail(ss))

----------------------------------------------------------------------------
(* The words used as query terms, event names and tags *)

W_movie == <<"m","o","v","i","e">>
W_movies == <<"m","o","v","i","e","s">>
W_film == <<"f","i","l","m">>
W_cinema == <<"c","i","n","e","m","a">>
W_movie_night == <<"m","o","v","i","e"," ","n","i","g","h","t">>
W_volleyball == <<"v","o","l","l","e","y","b","a","l","l">>
W_volley == <<"v","o","l","l","e","y">>
W_board_game == <<"b","o","a","r","d"," ","g","a","m","e">>
W_boardgame == <<"b","o","a","r","d","g","a","m","e">>
W_tabletop == <<"t","a","b","l","e","t","o","p">>
W_poker == <<"p","o","k","e","r">>
W_cards == <<"c","a","r","d","s">>
W_poker_night == <<"p","o","k","e","r"," ","n","i","g","h","t">>
W_social == <<"s","o","c","i","a","l">>
W_trivia == <<"t","r","i","v","i","a">>
W_chess == <<"c","h","e","s","s">>
W_Movies == <<"M","o","v","i","e","s","!">>
W_moviess == <<"m","o","v","i","e","s","s">>
W_cats == <<"c","a","t","s">>
W_bus == <<"b","u","s">>
W_glass == <<"g","l","a","s","s">>
W_Cats == <<" ","C","a","t","s","."," ">>
W_as == <<"a","s">>
W_empty == <<>>
W_dots == <<".",".",".">>
W_xs == <<"x","-","s">>
W_Catan_Night == <<"C","a","t","a","n"," ","N","i","g","h","t">>
W_Quiz == <<"Q","u","i","z">>
W_Open_Gym == <<"O","p","e","n"," ","G","y","m">>
W_Screening == <<"S","c","r","e","e","n","i","n","g">>

----------------------------------------------------------------------------
(* Text helpers of the web app *)

SYNONYMS ==
  << [key |-> W_movie,      syns |-> <<W_film, W_cinema, W_movies, W_movie_night>>],
     [key |-> W_movies,     syns |-> <<W_movie, W_film, W_cinema, W_movie_night>>],
     [key |-> W_volleyball, syns |-> <<W_volley>>],
     [key |-> W_board_game, syns |-> <<W_boardgame, W_tabletop>>],
     [key |-> W_boardgame,  syns |-> <<W_board_game, W_tabletop>>],
     [key |-> W_poker,      syns |-> <<W_cards, W_poker_night>>] >>

\* SYNONYMS[n], or the empty list when n is no key (the code tests SYNONYMS[n]).
synonymsOf(n) ==
  IF \E i \in DOMAIN SYNONYMS : SYNONYMS[i].key = n
  THEN SYNONYMS[CHOOSE i \in DOMAIN SYNONYMS : SYNONYMS[i].key = n].syns
  ELSE <<>>

\* Set.add on a Set kept in insertion order.
setAdd(out, x) == IF x \in Range(out) THEN out ELSE Append(out, x)

RECURSIVE setAddAll(_, _)
setAddAll(out, xs) ==
  IF xs = <<>> THEN out ELSE setAddAll(setAdd(out, Head(xs)), Tail(xs))

\* expandTerms without the synonym table: the normalized terms alone.
RECURSIVE normalizedTermsFrom(_, _)
normalizedTermsFrom(terms, out) ==
  IF terms = <<>> THEN out
  ELSE LET n == normalizeWord(Head(terms))
       IN IF n = <<>> THEN normalizedTermsFrom(Tail(terms), out)
          ELSE normalizedTermsFrom(Tail(terms), setAdd(out, n))

\* The mutant of expandTerms that never consults the synonym table.
expandTermsNoSynonyms(terms) == normalizedTermsFrom(terms, <<>>)

\* The loop of expandTerms over the terms left, out being the Set so far.
RECURSIVE expandTermsFrom(_, _)
expandTermsFrom(terms, out) ==
  IF terms = <<>> THEN out
  ELSE LET n == normalizeWord(Head(terms))
           syns == synonymsOf(n)
       IN IF n = <<>> THEN expandTermsFrom(Tail(terms), out)
          ELSE expandTermsFrom(Tail(terms),
                 setAddAll(setAdd(out, n),
                           [i \in DOMAIN syns |-> normalizeWord(syns[i])]))

expandTerms(terms) == expandTermsFrom(terms, <<>>)

\* inter / uni as the pair <<inter, uni>>; the value 0 is <<0, 1>>.
tokenJaccard(aTokens, bTokens) ==
  LET a == Range(aTokens)
      b == Range(bTokens)
      inter == Cardinality({x \in a : x \in b})
      uni == Cardinality(a \cup b)
  IN IF uni # 0 THEN <<inter, uni>> ELSE <<0, 1>>

substringHit(aTokens, bTokens) ==
  IF \E i \in DOMAIN aTokens : \E j \in DOMAIN bTokens :
       /\ Len(aTokens[i]) >= 3
       /\ (includes(bTokens[j], aTokens[i]) \/ includes(aTokens[i], bTokens[j]))
  THEN 1 ELSE 0

\* min(1, overlap / eventSpan) as a pair; max(0, .) changes nothing, both
\* numbers being non-negative.
timeOverlapFrac(aStart, aEnd, eStart, eEnd) ==
  LET overlap == Max(0, Min(aEnd, eEnd) - Max(aStart, eStart))
      eventSpan == Max(1, eEnd - eStart)
  IN <<Min(overlap, eventSpan), eventSpan>>

----------------------------------------------------------------------------
(* Helpers of the server *)

MsPerSec == 1000

\* max(0, 1 - leftover / span) as the pair <<span - leftover, span>>, both in
\* milliseconds: span = max(1, (A1 - A0) / 1000) seconds.
timeFit(A0, A1, s, e) ==
  LET spanMs == Max(1 * MsPerSec, A1 - A0)
      leftoverMs == Max(0, (A1 - e) + (s - A0))
  IN <<Max(0, spanMs - leftoverMs), spanMs>>

\* The mutant of jaccard that filters the list A, not the set a.
jaccardOverList(A, B) ==
  LET b == Range(B)
      inter == Cardinality({i \in DOMAIN A : A[i] \in b})
      uni == Cardinality(Range(A \o B))
  IN IF uni # 0 THEN <<inter, uni>> ELSE <<0, 1>>

jaccard(A, B) ==
  LET a == Range(A)
      b == Range(B)
      inter == Cardinality({x \in a : x \in b})
      uni == Cardinality(Range(A \o B))
  IN IF uni # 0 THEN <<inter, uni>> ELSE <<0, 1>>

----------------------------------------------------------------------------
(* Fixed point *)

\* Parts to one: every denominator up to 10 divides it, and so does 20.
Unit == 8 * 9 * 5 * 7

\* A pair <<n, d>> in fixed point (exact when d divides n * Unit).
toUnit(f) == (f[1] * Unit) \div f[2]

\* Math.log1p(n) in fixed point, rounded to the nearest part, for n = 0..5.
Log1pTable == <<0, 1747, 2769, 3493, 4056, 4515>>
MaxAttendees == Len(Log1pTable) - 1
log1p(n) == Log1pTable[n + 1]

----------------------------------------------------------------------------
(* Events *)

\* An EventRow; attendees is the length of the attendee list (0 for null).
EventRow(id, name, tags, start, end, attendees) ==
  [id |-> id, name |-> name, tags |-> tags,
   start_ts |-> start, end_ts |-> end, attendees |-> attendees]

\* The events the store may hold, in ascending start_ts as fetchEvents orders
\* them.  The last two differ in their id alone.
Catalog ==
  << EventRow(4, W_Screening, <<W_film>>, 0, 5 * TickMs, 0),
     EventRow(1, W_Catan_Night, <<W_board_game, W_social>>, TickMs, 3 * TickMs, 3),
     EventRow(3, W_Open_Gym, <<W_volleyball>>, 2 * TickMs, 7 * TickMs, 5),
     EventRow(2, W_Quiz, <<W_board_game, W_trivia>>, 3 * TickMs, 4 * TickMs, 2),
     EventRow(5, W_Quiz, <<W_board_game, W_trivia>>, 3 * TickMs, 4 * TickMs, 2) >>

\* The sub-list of seq at the positions in S.
RECURSIVE pick(_, _, _)
pick(seq, S, i) ==
  IF i > Len(seq) THEN <<>>
  ELSE (IF i \in S THEN <<seq[i]>> ELSE <<>>) \o pick(seq, S, i + 1)

\* The candidate pool cap of both pipelines (slice(0, 30)).
PoolCap == 30

\* A store of n events that all start together: more than the pool holds.
BigStore(n) ==
  [i \in 1..n |->
     EventRow(100 + i, W_Quiz,
              CASE i % 3 = 0 -> <<W_board_game, W_trivia>>
                [] i % 3 = 1 -> <<W_volleyball>>
                [] OTHER     -> <<W_film, W_social>>,
              TickMs, 3 * TickMs, i % 3)]

SmallStores == {pick(Catalog, S, 1) : S \in SUBSET DOMAIN Catalog}
BigStores == {BigStore(PoolCap), BigStore(PoolCap + 1)}
Stores == SmallStores \cup BigStores

\* The window the app starts with: it overlaps every event of every store.
WideWindow == <<0, 5 * TickMs>>

\* The values the availability inputs take.  Of the four windows, one ends
\* where it starts, one holds a fifth of the third event and none of the
\* last two, one holds none of the second event.
AStarts == {0, 3 * TickMs}
AEnds == {3 * TickMs, 5 * TickMs}
Windows == AStarts \X AEnds

----------------------------------------------------------------------------
(* Scoring and diversification of the web app (getSuggestions) *)

\* A message shown to the user: its kind and the numbers its text carries.
Msg(kind, n, m) == [kind |-> kind, n |-> n, m |-> m]
NoMsg == Msg("null", 0, 0)

\* qTags.split(',').map(s => s.trim()).filter(Boolean)
RECURSIVE splitComma(_, _, _)
splitComma(s, cur, acc) ==
  IF s = <<>> THEN Append(acc, cur)
  ELSE IF Head(s) = "," THEN splitComma(Tail(s), <<>>, Append(acc, cur))
       ELSE splitComma(Tail(s), Append(cur, Head(s)), acc)

qTagArrOf(qTagsText) ==
  LET parts == splitComma(qTagsText, <<>>, <<>>)
      trimmed == [i \in DOMAIN parts |-> trim(parts[i])]
  IN SelectSeq(trimmed, LAMBDA x : x # <<>>)

\* overlapFrac > 0.2
OverlapNum == 1
OverlapDen == 5

\* The mutant of the threshold test that keeps any positive overlap.
passesAnyOverlap(frac) == frac[1] > 0

passesOverlap(frac) == frac[1] * OverlapDen > OverlapNum * frac[2]

\* The mutant of the candidate filter that keeps an overlap of exactly 0.2.
candidatesOfAtLeast(evs, A0, A1) ==
  SelectSeq([i \in DOMAIN evs |->
               [row |-> evs[i],
                overlapFrac |-> timeOverlapFrac(A0, A1, evs[i].start_ts, evs[i].end_ts)]],
            LAMBDA x : x.overlapFrac[1] * OverlapDen >= OverlapNum * x.overlapFrac[2])

\* events.map(...).filter(x => x.overlapFrac > 0.2)
candidatesOf(evs, A0, A1) ==
  SelectSeq([i \in DOMAIN evs |->
               [row |-> evs[i],
                overlapFrac |-> timeOverlapFrac(A0, A1, evs[i].start_ts, evs[i].end_ts)]],
            LAMBDA x : passesOverlap(x.overlapFrac))

\* qExpanded.flatMap(tokenizeText)
qTokensOf(qTagArr) ==
  LET qExpanded == expandTerms(qTagArr)
  IN flatten([i \in DOMAIN qExpanded |-> tokenizeText(qExpanded[i])])

\* The substring bonus 0.15 = 3/20, in fixed point.
SubBonus == (3 * Unit) \div 20

\* min(1, j + sub) of one row, in fixed point.
textScore(qTokens, row) ==
  LET text == row.name \o <<" ">> \o join(row.tags, <<" ">>)
      eTokens == tokenizeText(text)
      j == toUnit(tokenJaccard(qTokens, eTokens))
      sub == IF substringHit(qTokens, eTokens) = 1 THEN SubBonus ELSE 0
  IN Min(Unit, j + sub)

\* One scored candidate.  score is 0.55 text + 0.30 overlap + 0.15 pop in
\* hundredths of a part: 55, 30 and 15 are the weights times 100.
scoreRow(qTokens, cand) ==
  LET ts == textScore(qTokens, cand.row)
  IN [row |-> cand.row,
      score |-> 55 * ts + 30 * toUnit(cand.overlapFrac) + 15 * log1p(cand.row.attendees),
      textScore |-> ts,
      overlapFrac |-> cand.overlapFrac]

\* Array.prototype.sort((a, b) => b.score - a.score): stable, descending.
insertDesc(sorted, x) ==
  LET n == Cardinality({i \in DOMAIN sorted : sorted[i].score >= x.score})
  IN SubSeq(sorted, 1, n) \o <<x>> \o SubSeq(sorted, n + 1, Len(sorted))

RECURSIVE sortDescFrom(_, _)
sortDescFrom(rest, acc) ==
  IF rest = <<>> THEN acc ELSE sortDescFrom(Tail(rest), insertDesc(acc, Head(rest)))

sortDesc(seq) == sortDescFrom(seq, <<>>)

\* arr.slice(0, n)
slice0(arr, n) == SubSeq(arr, 1, Min(n, Len(arr)))

\* scored.slice(0, 30) of the sorted scored candidates.
poolOf(cands, qTagArr) ==
  LET qTokens == qTokensOf(qTagArr)
  IN slice0(sortDesc([i \in DOMAIN cands |-> scoreRow(qTokens, cands[i])]), PoolCap)

SetMax(S) == CHOOSE x \in S : \A y \in S : y <= x

\* The tag Jaccard the loop computes inline on normalized tags, as a pair.
tagJaccard(eTags, xTags) ==
  LET A == {normalizeWord(eTags[i]) : i \in DOMAIN eTags}
      B == {normalizeWord(xTags[i]) : i \in DOMAIN xTags}
      inter == Cardinality({x \in A : x \in B})
      uni == Cardinality(A \cup B)
  IN IF uni # 0 THEN <<inter, uni>> ELSE <<0, 1>>

\* sim of a pool entry against the rows chosen so far, in fixed point.
webSim(e, chosen) ==
  IF chosen # <<>>
  THEN SetMax({toUnit(tagJaccard(e.row.tags, chosen[i].tags)) : i \in DOMAIN chosen})
  ELSE 0

\* lambda = 0.7, in tenths.
Lambda10 == 7

\* val = lambda * score - (1 - lambda) * sim, in thousandths of a part.
webVal(e, chosen) == Lambda10 * e.score - (10 - Lambda10) * 100 * webSim(e, chosen)

\* The start value -1e9 of the running maximum: below every val.
NegBig == -1000000000

\* The mutant of the scan that also moves on a tie (val >= bv).
RECURSIVE webScanLastMax(_, _, _, _, _)
webScanLastMax(p, chosen, i, bi, bv) ==
  IF i > Len(p) THEN bi
  ELSE LET val == webVal(p[i], chosen)
       IN IF val >= bv THEN webScanLastMax(p, chosen, i + 1, i, val)
          ELSE webScanLastMax(p, chosen, i + 1, bi, bv)

\* The for loop over the pool from position i (positions count from 1).
RECURSIVE webScan(_, _, _, _, _)
webScan(p, chosen, i, bi, bv) ==
  IF i > Len(p) THEN bi
  ELSE LET val == webVal(p[i], chosen)
       IN IF val > bv THEN webScan(p, chosen, i + 1, i, val)
          ELSE webScan(p, chosen, i + 1, bi, bv)

\* The mutant of the splice that removes nothing.
withoutNothing(arr, i) == arr

\* arr.splice(i, 1): arr without position i.
without(arr, i) == SubSeq(arr, 1, i - 1) \o SubSeq(arr, i + 1, Len(arr))

----------------------------------------------------------------------------
(* Scoring and diversification of the server (handler) *)

\* A row of the recommend_raw result: an event and its embedding similarity,
\* in fixed point.
RpcRow(ev, sim) ==
  [id |-> ev.id, name |-> ev.name, tags |-> ev.tags, start_ts |-> ev.start_ts,
   end_ts |-> ev.end_ts, attendees |-> ev.attendees, embed_sim |-> sim]

\* The results recommend_raw may give: any store, each row with a similarity
\* that depends on its id alone (so the two twins of the catalog tie).
RpcData ==
  {[i \in DOMAIN st |-> RpcRow(st[i], ((st[i].id % 3) * Unit) \div 3)] : st \in Stores}

\* {...r, _score}: score is 0.6 sim + 0.2 tf + 0.2 pop in tenths of a part.
srvScoreRow(r, aStartMs, aEndMs) ==
  LET tf == toUnit(timeFit(aStartMs, aEndMs, r.start_ts, r.end_ts))
      pop == log1p(r.attendees)
  IN [row |-> r, score |-> 6 * r.embed_sim + 2 * tf + 2 * pop]

\* The mutant of the handler's rows that is not capped.
rowsOfUncapped(d, aStartMs, aEndMs) ==
  sortDesc([i \in DOMAIN d |-> srvScoreRow(d[i], aStartMs, aEndMs)])

\* data.map(...).sort(...).slice(0, 30)
rowsOf(d, aStartMs, aEndMs) ==
  slice0(sortDesc([i \in DOMAIN d |-> srvScoreRow(d[i], aStartMs, aEndMs)]), PoolCap)

srvSim(e, chosen) ==
  IF chosen # <<>>
  THEN SetMax({toUnit(jaccard(e.row.tags, chosen[i].row.tags)) : i \in DOMAIN chosen})
  ELSE 0

\* val = lambda * _score - (1 - lambda) * sim, in hundredths of a part.
srvVal(e, chosen) == Lambda10 * e.score - (10 - Lambda10) * 10 * srvSim(e, chosen)

\* The for loop over rows from position i (positions count from 1).
RECURSIVE srvScan(_, _, _, _, _)
srvScan(rs, chosen, i, best, bestVal) ==
  IF i > Len(rs) THEN best
  ELSE LET val == srvVal(rs[i], chosen)
       IN IF val > bestVal THEN srvScan(rs, chosen, i + 1, i, val)
          ELSE srvScan(rs, chosen, i + 1, best, bestVal)

\* Number(score.toFixed(3)), in thousandths; the scores here are not negative.
toFixed3(score10) == (2 * 100 * score10 + Unit) \div (2 * Unit)

\* One suggestion of the response; reason carries the attendee count it prints.
suggestionOf(e) ==
  [id |-> e.row.id, name |-> e.row.name, start |-> e.row.start_ts, end |-> e.row.end_ts,
   tags |-> e.row.tags, attendeesCount |-> e.row.attendees,
   score |-> toFixed3(e.score), reason |-> e.row.attendees]

\* A field the request body does not hold.
Absent == 0 - 1

DefaultK == 5

\* const { k = 5 } = req.body
kOf(body) == IF body.k = Absent THEN DefaultK ELSE body.k

\* !aStart || !aEnd || !Array.isArray(tags) || !tags.length
badRequest(body) ==
  \/ body.aStart = Absent
  \/ body.aEnd = Absent
  \/ ~body.tagsIsArray
  \/ Len(body.tags) = 0

Response(status, hasSuggestions, suggestions) ==
  [status |-> status, hasSuggestions |-> hasSuggestions, suggestions |-> suggestions]
NoResponse == Response(0, FALSE, <<>>)

----------------------------------------------------------------------------
(* State *)

VARIABLES
  db,             \* the rows of the events table
  aStart, aEnd,   \* web: the availability window, as Date.parse reads it
  qTags,          \* web: the text of the tags input
  k,              \* web: how many suggestions
  events,         \* web: the events loaded
  suggs,          \* web: the suggestions shown
  errorMsg,       \* web
  infoMsg,        \* web
  loadingSug,     \* web
  webPc,          \* web: where getSuggestions stands
  closure,        \* web: the state the running getSuggestions closed over
  candidates,     \* web: local of getSuggestions
  pool,           \* web: local of getSuggestions
  out,            \* web: local of getSuggestions
  req,            \* server: the request
  srvPc,          \* server: where handler stands
  data,           \* server: local of handler
  rows,           \* server: local of handler
  outS,           \* server: local out of handler
  res,            \* server: the response sent
  admName,        \* web: the name input of the admin form (name)
  admStart,       \* web: the start input of the admin form (start)
  admEnd,         \* web: the end input of the admin form (end)
  loadingAdd,     \* web
  addPc,          \* web: where addEvent stands
  mobBody,        \* mobile: the request body the inputs give
  loading,        \* mobile
  mobData,        \* mobile: the suggestions shown (data)
  mobCalls,       \* mobile: the calls of fetchSuggestions not yet ended
  mobWaiting,     \* mobile: the requests sent that the server has not taken
  mobReplies,     \* mobile: the responses on their way to the app
  call            \* the last call of a helper made on its own

webVars == <<aStart, aEnd, qTags, k, events, suggs, errorMsg, infoMsg, loadingSug,
             webPc, closure, candidates, pool, out>>
srvVars == <<req, srvPc, data, rows, outS, res>>
admVars == <<admName, admStart, admEnd, loadingAdd, addPc>>
mobVars == <<mobBody, loading, mobData, mobCalls, mobWaiting, mobReplies>>
vars == <<db, webVars, srvVars, admVars, mobVars, call>>

\* The state a call of getSuggestions reads: that of the render it was made in.
Closure(evs, a0, a1, q, kk) ==
  [events |-> evs, aStart |-> a0, aEnd |-> a1, qTags |-> q, k |-> kk]
NoClosure == Closure(<<>>, 0, 0, <<>>, 0)

NoCall == [op |-> "none", args |-> <<>>, res |-> <<>>]

\* The texts of the tags input: empty, the initial one, one with a key of
\* two words.
QTagTexts ==
  { W_empty,
    W_movie \o <<",", " ">> \o W_volleyball,
    W_board_game \o <<",">> \o W_volleyball }

\* setK keeps k within 1..20.
MinWebK == 1
MaxWebK == 20
WebKs == {MinWebK, 2}

\* events come with .limit(500)
FetchLimit == 500

Requests ==
  {[method |-> "GET", aStart |-> Absent, aEnd |-> Absent, tagsIsArray |-> FALSE,
    tags |-> <<>>, k |-> Absent]}
  \cup
  {[method |-> "POST", aStart |-> w[1], aEnd |-> w[2], tagsIsArray |-> t[1],
    tags |-> t[2], k |-> kk] :
     w \in Windows \cup {<<Absent, TickMs>>},
     t \in {<<FALSE, <<>>>>, <<TRUE, <<>>>>, <<TRUE, <<W_board_game, W_volleyball>>>>},
     kk \in {Absent, 0, 1, 2, PoolCap + 1}}

WebIdle ==
  /\ webPc = "off" /\ aStart = 0 /\ aEnd = 0 /\ qTags = <<>> /\ k = 0
  /\ events = <<>> /\ suggs = <<>> /\ errorMsg = NoMsg /\ infoMsg = NoMsg
  /\ loadingSug = FALSE /\ closure = NoClosure /\ candidates = <<>>
  /\ pool = <<>> /\ out = <<>>

SrvIdle ==
  /\ srvPc = "off" /\ req = [method |-> "none"] /\ data = <<>> /\ rows = <<>>
  /\ outS = <<>> /\ res = NoResponse

\* The admin form of the web app, left alone.
AdmIdle ==
  /\ addPc = "off" /\ admName = <<>> /\ admStart = 0 /\ admEnd = 0
  /\ loadingAdd = FALSE

\* The admin form in use: the name given or not, the end after the start or
\* on it.  The event it adds starts when no event of the catalog does.
AdmNames == {W_empty, W_Catan_Night}
AdmDates == {<<4 * TickMs, 6 * TickMs>>, <<4 * TickMs, 4 * TickMs>>}
AdmInUse ==
  /\ addPc = "idle"
  /\ admName \in AdmNames
  /\ \E d \in AdmDates : admStart = d[1] /\ admEnd = d[2]
  /\ loadingAdd = FALSE

\* The mobile app, absent.
MobIdle ==
  /\ mobBody = [method |-> "none"] /\ loading = FALSE /\ mobData = <<>>
  /\ mobCalls = 0 /\ mobWaiting = 0 /\ mobReplies = <<>>

\* k: 5 in the body fetchSuggestions sends.
MobK == 5

\* The bodies the inputs of the mobile screen give: the start input cleared
\* or not, the tags input empty or the initial one.
MobBodies ==
  {[method |-> "POST", aStart |-> a, aEnd |-> WideWindow[2], tagsIsArray |-> TRUE,
    tags |-> tg, k |-> MobK] :
     a \in {Absent, WideWindow[1]},
     tg \in {<<>>, <<W_board_game, W_volleyball>>}}

\* Calls of fetchSuggestions that may run at once: its button is never
\* disabled.
MaxCalls == 2

\* The web app after construction, before its first fetch.  The admin form
\* is in use over the stores of at most one event.
InitWeb ==
  /\ aStart = WideWindow[1] /\ aEnd = WideWindow[2]
  /\ \/ /\ db \in SmallStores
        /\ qTags \in QTagTexts
        /\ k \in WebKs
     \/ /\ db = BigStore(PoolCap + 1)
        /\ qTags = W_board_game \o <<",">> \o W_volleyball
        /\ k = MaxWebK
  /\ events = <<>> /\ suggs = <<>> /\ errorMsg = NoMsg /\ infoMsg = NoMsg
  /\ loadingSug = FALSE /\ webPc = "idle"
  /\ closure = NoClosure /\ candidates = <<>> /\ pool = <<>> /\ out = <<>>
  /\ \/ AdmIdle
     \/ Len(db) <= 1 /\ k = MinWebK /\ AdmInUse
  /\ SrvIdle
  /\ MobIdle
  /\ call = NoCall

\* The server as a request arrives.
InitSrv ==
  /\ db = <<>>
  /\ req \in Requests
  /\ srvPc = "idle" /\ data = <<>> /\ rows = <<>> /\ outS = <<>> /\ res = NoResponse
  /\ WebIdle
  /\ AdmIdle
  /\ MobIdle
  /\ call = NoCall

\* The mobile app after construction, with the server it posts to.
InitMobile ==
  /\ db = <<>>
  /\ mobBody \in MobBodies
  /\ loading = FALSE /\ mobData = <<>>
  /\ mobCalls = 0 /\ mobWaiting = 0 /\ mobReplies = <<>>
  /\ WebIdle
  /\ AdmIdle
  /\ SrvIdle
  /\ call = NoCall

Init == InitWeb \/ InitSrv \/ InitMobile

----------------------------------------------------------------------------
(* The web app *)

\* fetchEvents is called from a button or the mount effect: setErrorMsg(null),
\* then the query is in flight.  Any number of calls may be in flight.
FetchEventsStart ==
  /\ webPc \in {"idle", "await"}
  /\ errorMsg' = NoMsg
  /\ UNCHANGED <<db, aStart, aEnd, qTags, k, events, suggs, infoMsg, loadingSug,
                 webPc, closure, candidates, pool, out, srvVars, admVars, mobVars, call>>

\* A fetchEvents in flight succeeds.
FetchEventsOk ==
  /\ webPc \in {"idle", "await"}
  /\ events' = slice0(db, FetchLimit)
  /\ infoMsg' = Msg("loaded", Len(slice0(db, FetchLimit)), 0)
  /\ UNCHANGED <<db, aStart, aEnd, qTags, k, suggs, errorMsg, loadingSug, webPc,
                 closure, candidates, pool, out, srvVars, admVars, mobVars, call>>

\* A fetchEvents in flight fails.
FetchEventsError ==
  /\ webPc \in {"idle", "await"}
  /\ errorMsg' = Msg("fetchError", 0, 0)
  /\ UNCHANGED <<db, aStart, aEnd, qTags, k, events, suggs, infoMsg, loadingSug,
                 webPc, closure, candidates, pool, out, srvVars, admVars, mobVars, call>>

\* setAStart from the availability input; the inputs are not disabled while
\* getSuggestions awaits.  A store larger than the pool keeps its window.
SetAStart ==
  /\ webPc \in {"idle", "await"}
  /\ Len(db) < PoolCap
  /\ \E t \in AStarts : aStart' = t
  /\ UNCHANGED <<db, aEnd, qTags, k, events, suggs, errorMsg, infoMsg, loadingSug,
                 webPc, closure, candidates, pool, out, srvVars, admVars, mobVars, call>>

SetAEnd ==
  /\ webPc \in {"idle", "await"}
  /\ Len(db) < PoolCap
  /\ \E t \in AEnds : aEnd' = t
  /\ UNCHANGED <<db, aStart, qTags, k, events, suggs, errorMsg, infoMsg, loadingSug,
                 webPc, closure, candidates, pool, out, srvVars, admVars, mobVars, call>>

\* getSuggestions up to its first await, or to the window test when events
\* are loaded.  The button is disabled while loadingSug.
GetSuggestionsClick ==
  /\ webPc = "idle" /\ ~loadingSug
  /\ errorMsg' = NoMsg
  /\ infoMsg' = NoMsg
  /\ loadingSug' = TRUE
  /\ closure' = Closure(events, aStart, aEnd, qTags, k)
  /\ candidates' = <<>> /\ pool' = <<>> /\ out' = <<>>
  /\ webPc' = IF Len(events) = 0 THEN "await" ELSE "run"
  /\ UNCHANGED <<db, aStart, aEnd, qTags, k, events, suggs, srvVars, admVars, mobVars, call>>

\* The fetchEvents getSuggestions awaits (its setErrorMsg(null) follows that
\* of getSuggestions at once), succeeding: the events it sets are not the
\* ones the running call closed over.
AwaitedFetchOk ==
  /\ webPc = "await"
  /\ events' = slice0(db, FetchLimit)
  /\ infoMsg' = Msg("loaded", Len(slice0(db, FetchLimit)), 0)
  /\ webPc' = "run"
  /\ UNCHANGED <<db, aStart, aEnd, qTags, k, suggs, errorMsg, loadingSug,
                 closure, candidates, pool, out, srvVars, admVars, mobVars, call>>

AwaitedFetchError ==
  /\ webPc = "await"
  /\ errorMsg' = Msg("fetchError", 0, 0)
  /\ webPc' = "run"
  /\ UNCHANGED <<db, aStart, aEnd, qTags, k, events, suggs, infoMsg, loadingSug,
                 closure, candidates, pool, out, srvVars, admVars, mobVars, call>>

\* The fetchEvents getSuggestions awaits rejects: the catch, then the finally.
AwaitedFetchThrows ==
  /\ webPc = "await"
  /\ errorMsg' = Msg("thrown", 0, 0)
  /\ loadingSug' = FALSE
  /\ webPc' = "idle"
  /\ UNCHANGED <<db, aStart, aEnd, qTags, k, events, suggs, infoMsg,
                 closure, candidates, pool, out, srvVars, admVars, mobVars, call>>

\* The mutant of the early return that skips the finally.
GetSuggestionsBadWindowNoFinally ==
  /\ webPc = "run"
  /\ ~(closure.aEnd > closure.aStart)
  /\ errorMsg' = Msg("windowError", 0, 0)
  /\ webPc' = "idle"
  /\ UNCHANGED <<db, aStart, aEnd, qTags, k, events, suggs, infoMsg, loadingSug,
                 closure, candidates, pool, out, srvVars, admVars, mobVars, call>>

\* if (!(A1 > A0)) { setErrorMsg(...); return; } and the finally.
GetSuggestionsBadWindow ==
  /\ webPc = "run"
  /\ ~(closure.aEnd > closure.aStart)
  /\ errorMsg' = Msg("windowError", 0, 0)
  /\ loadingSug' = FALSE
  /\ webPc' = "idle"
  /\ UNCHANGED <<db, aStart, aEnd, qTags, k, events, suggs, infoMsg,
                 closure, candidates, pool, out, srvVars, admVars, mobVars, call>>

\* if (candidates.length === 0) { ...; return; } and the finally.
GetSuggestionsNoCandidates ==
  /\ webPc = "run"
  /\ closure.aEnd > closure.aStart
  /\ Len(candidatesOf(closure.events, closure.aStart, closure.aEnd)) = 0
  /\ candidates' = <<>>
  /\ suggs' = <<>>
  /\ infoMsg' = Msg("noOverlap", 0, 0)
  /\ loadingSug' = FALSE
  /\ webPc' = "idle"
  /\ UNCHANGED <<db, aStart, aEnd, qTags, k, events, errorMsg,
                 closure, pool, out, srvVars, admVars, mobVars, call>>

\* Filter, score, sort and cap: up to the while loop.
GetSuggestionsScore ==
  /\ webPc = "run"
  /\ closure.aEnd > closure.aStart
  /\ \E c \in {candidatesOf(closure.events, closure.aStart, closure.aEnd)} :
       /\ Len(c) # 0
       /\ candidates' = c
       /\ pool' = poolOf(c, qTagArrOf(closure.qTags))
  /\ out' = <<>>
  /\ webPc' = "mmr"
  /\ UNCHANGED <<db, aStart, aEnd, qTags, k, events, suggs, errorMsg, infoMsg,
                 loadingSug, closure, srvVars, admVars, mobVars, call>>

\* One round of the while loop.
WebMmrStep ==
  /\ webPc = "mmr"
  /\ Len(pool) # 0 /\ Len(out) < closure.k
  /\ \E bi \in {webScan(pool, out, 1, 1, NegBig)} :
       /\ out' = Append(out, pool[bi].row)
       /\ pool' = without(pool, bi)
  /\ UNCHANGED <<db, aStart, aEnd, qTags, k, events, suggs, errorMsg, infoMsg,
                 loadingSug, webPc, closure, candidates, srvVars, admVars, mobVars, call>>

\* The loop ends: setSuggs, setInfoMsg and the finally.
GetSuggestionsDone ==
  /\ webPc = "mmr"
  /\ ~(Len(pool) # 0 /\ Len(out) < closure.k)
  /\ suggs' = out
  /\ infoMsg' = Msg("found", Len(out), Len(candidates))
  /\ loadingSug' = FALSE
  /\ webPc' = "idle"
  /\ UNCHANGED <<db, aStart, aEnd, qTags, k, events, errorMsg,
                 closure, candidates, pool, out, srvVars, admVars, mobVars, call>>

\* addEvent with no name: setErrorMsg(null), then the message and the return,
\* before loadingAdd is set.  The button is disabled while loadingAdd.
AddEventNameRequired ==
  /\ addPc = "idle" /\ ~loadingAdd
  /\ webPc \in {"idle", "await"}
  /\ admName = <<>>
  /\ errorMsg' = Msg("nameRequired", 0, 0)
  /\ UNCHANGED <<db, aStart, aEnd, qTags, k, events, suggs, infoMsg, loadingSug,
                 webPc, closure, candidates, pool, out, srvVars, admVars, mobVars, call>>

\* addEvent with an end that is not after the start.
AddEventBadDates ==
  /\ addPc = "idle" /\ ~loadingAdd
  /\ webPc \in {"idle", "await"}
  /\ admName # <<>>
  /\ admEnd <= admStart
  /\ errorMsg' = Msg("endAfterStart", 0, 0)
  /\ UNCHANGED <<db, aStart, aEnd, qTags, k, events, suggs, infoMsg, loadingSug,
                 webPc, closure, candidates, pool, out, srvVars, admVars, mobVars, call>>

\* addEvent up to the insert it awaits.
AddEventClick ==
  /\ addPc = "idle" /\ ~loadingAdd
  /\ webPc \in {"idle", "await"}
  /\ admName # <<>>
  /\ ~(admEnd <= admStart)
  /\ errorMsg' = NoMsg
  /\ loadingAdd' = TRUE
  /\ addPc' = "insert"
  /\ UNCHANGED <<db, aStart, aEnd, qTags, k, events, suggs, infoMsg, loadingSug,
                 webPc, closure, candidates, pool, out, srvVars,
                 admName, admStart, admEnd, mobVars, call>>

\* The insert succeeds: setName(''), then fetchEvents is called and awaited.
\* The row gets a new id and no attendees; db stays in ascending start_ts.
AddEventInsertOk ==
  /\ addPc = "insert"
  /\ webPc \in {"idle", "await"}
  /\ LET row == EventRow(6, admName, <<W_board_game, W_social>>, admStart, admEnd, 0)
         n == Cardinality({i \in DOMAIN db : db[i].start_ts <= admStart})
     IN db' = SubSeq(db, 1, n) \o <<row>> \o SubSeq(db, n + 1, Len(db))
  /\ admName' = <<>>
  /\ errorMsg' = NoMsg
  /\ addPc' = "fetch"
  /\ UNCHANGED <<aStart, aEnd, qTags, k, events, suggs, infoMsg, loadingSug,
                 webPc, closure, candidates, pool, out, srvVars,
                 admStart, admEnd, loadingAdd, mobVars, call>>

\* The insert answers with an error or rejects: the catch, then the finally.
AddEventInsertError ==
  /\ addPc = "insert"
  /\ webPc \in {"idle", "await"}
  /\ errorMsg' = Msg("insertError", 0, 0)
  /\ loadingAdd' = FALSE
  /\ addPc' = "idle"
  /\ UNCHANGED <<db, aStart, aEnd, qTags, k, events, suggs, infoMsg, loadingSug,
                 webPc, closure, candidates, pool, out, srvVars,
                 admName, admStart, admEnd, mobVars, call>>

\* The fetchEvents addEvent awaits succeeds: setEvents, then 'Event added'
\* over the message of fetchEvents, then the finally.
AddEventFetchOk ==
  /\ addPc = "fetch"
  /\ webPc \in {"idle", "await"}
  /\ events' = slice0(db, FetchLimit)
  /\ infoMsg' = Msg("added", 0, 0)
  /\ loadingAdd' = FALSE
  /\ addPc' = "idle"
  /\ UNCHANGED <<db, aStart, aEnd, qTags, k, suggs, errorMsg, loadingSug,
                 webPc, closure, candidates, pool, out, srvVars,
                 admName, admStart, admEnd, mobVars, call>>

\* The fetchEvents addEvent awaits answers with an error: it sets errorMsg
\* and returns, addEvent goes on to 'Event added' and the finally.
AddEventFetchError ==
  /\ addPc = "fetch"
  /\ webPc \in {"idle", "await"}
  /\ errorMsg' = Msg("fetchError", 0, 0)
  /\ infoMsg' = Msg("added", 0, 0)
  /\ loadingAdd' = FALSE
  /\ addPc' = "idle"
  /\ UNCHANGED <<db, aStart, aEnd, qTags, k, events, suggs, loadingSug,
                 webPc, closure, candidates, pool, out, srvVars,
                 admName, admStart, admEnd, mobVars, call>>

\* The fetchEvents addEvent awaits rejects: the catch, then the finally.
AddEventFetchThrows ==
  /\ addPc = "fetch"
  /\ webPc \in {"idle", "await"}
  /\ errorMsg' = Msg("thrown", 0, 0)
  /\ loadingAdd' = FALSE
  /\ addPc' = "idle"
  /\ UNCHANGED <<db, aStart, aEnd, qTags, k, events, suggs, infoMsg, loadingSug,
                 webPc, closure, candidates, pool, out, srvVars,
                 admName, admStart, admEnd, mobVars, call>>

----------------------------------------------------------------------------
(* The mobile app (SuggestScreen) and the way to the server *)

\* fetchSuggestions up to the fetch it awaits.
FetchSuggestionsClick ==
  /\ mobBody.method = "POST"
  /\ mobCalls < MaxCalls
  /\ loading' = TRUE
  /\ mobCalls' = mobCalls + 1
  /\ mobWaiting' = mobWaiting + 1
  /\ UNCHANGED <<db, webVars, srvVars, admVars, mobBody, mobData, mobReplies, call>>

\* A request reaches the handler, which is free.
RequestArrives ==
  /\ mobWaiting > 0
  /\ srvPc = "off"
  /\ req' = mobBody
  /\ srvPc' = "idle"
  /\ data' = <<>> /\ rows' = <<>> /\ outS' = <<>> /\ res' = NoResponse
  /\ mobWaiting' = mobWaiting - 1
  /\ UNCHANGED <<db, webVars, admVars, mobBody, loading, mobData, mobCalls,
                 mobReplies, call>>

\* The response of the handler leaves for the app.
ResponseLeaves ==
  /\ mobBody.method = "POST"
  /\ srvPc = "done"
  /\ mobReplies' = Append(mobReplies, res)
  /\ srvPc' = "off"
  /\ UNCHANGED <<db, webVars, admVars, req, data, rows, outS, res, mobBody, loading,
                 mobData, mobCalls, mobWaiting, call>>

\* A response with a JSON body arrives (200, or 500 with no suggestions):
\* setData(json.suggestions || []), then the finally.
FetchSuggestionsOk ==
  /\ \E i \in DOMAIN mobReplies :
       /\ mobReplies[i].status \in {200, 500}
       /\ mobData' = IF mobReplies[i].hasSuggestions THEN mobReplies[i].suggestions
                     ELSE <<>>
       /\ mobReplies' = without(mobReplies, i)
  /\ loading' = FALSE
  /\ mobCalls' = mobCalls - 1
  /\ UNCHANGED <<db, webVars, srvVars, admVars, mobBody, mobWaiting, call>>

\* A response with a text body arrives (400): r.json() throws, the finally
\* runs and the error leaves fetchSuggestions.
FetchSuggestionsJsonThrows ==
  /\ \E i \in DOMAIN mobReplies :
       /\ mobReplies[i].status \notin {200, 500}
       /\ mobReplies' = without(mobReplies, i)
  /\ loading' = FALSE
  /\ mobCalls' = mobCalls - 1
  /\ UNCHANGED <<db, webVars, srvVars, admVars, mobBody, mobData, mobWaiting, call>>

\* The fetch rejects, its request lost: the finally runs and the error
\* leaves fetchSuggestions.
FetchSuggestionsRejects ==
  /\ mobWaiting > 0
  /\ mobWaiting' = mobWaiting - 1
  /\ loading' = FALSE
  /\ mobCalls' = mobCalls - 1
  /\ UNCHANGED <<db, webVars, srvVars, admVars, mobBody, mobData, mobReplies, call>>

----------------------------------------------------------------------------
(* The server *)

HandlerNotPost ==
  /\ srvPc = "idle"
  /\ req.method # "POST"
  /\ res' = Response(405, FALSE, <<>>)
  /\ srvPc' = "done"
  /\ UNCHANGED <<db, webVars, req, data, rows, outS, admVars, mobVars, call>>

HandlerBadRequest ==
  /\ srvPc = "idle"
  /\ req.method = "POST"
  /\ badRequest(req)
  /\ res' = Response(400, FALSE, <<>>)
  /\ srvPc' = "done"
  /\ UNCHANGED <<db, webVars, req, data, rows, outS, admVars, mobVars, call>>

\* recommend_raw answers with an error: thrown, caught, 500.
HandlerRpcError ==
  /\ srvPc = "idle"
  /\ req.method = "POST"
  /\ ~badRequest(req)
  /\ res' = Response(500, FALSE, <<>>)
  /\ srvPc' = "done"
  /\ UNCHANGED <<db, webVars, req, data, rows, outS, admVars, mobVars, call>>

\* The embedding (opaque to the handler), the fetch, the scoring, the sort
\* and the cap: up to the while loop.  A result that fills the pool is
\* taken for the wide window and a given k alone; a request of the mobile
\* app gets no row or the whole catalog.
HandlerScore ==
  /\ srvPc = "idle"
  /\ req.method = "POST"
  /\ ~badRequest(req)
  /\ \E d \in RpcData :
       /\ Len(d) >= PoolCap => (<<req.aStart, req.aEnd>> = WideWindow /\ req.k # Absent)
       /\ mobBody.method = "POST" => Len(d) \in {0, Len(Catalog)}
       /\ data' = d
       /\ rows' = rowsOf(d, req.aStart, req.aEnd)
  /\ outS' = <<>>
  /\ srvPc' = "mmr"
  /\ UNCHANGED <<db, webVars, req, res, admVars, mobVars, call>>

\* One round of the while loop.
SrvMmrStep ==
  /\ srvPc = "mmr"
  /\ Len(rows) # 0 /\ Len(outS) < kOf(req)
  /\ \E best \in {srvScan(rows, outS, 1, 1, NegBig)} :
       /\ outS' = Append(outS, rows[best])
       /\ rows' = without(rows, best)
  /\ UNCHANGED <<db, webVars, req, srvPc, data, res, admVars, mobVars, call>>

\* The loop ends: res.status(200).json({ suggestions }).
HandlerRespond ==
  /\ srvPc = "mmr"
  /\ ~(Len(rows) # 0 /\ Len(outS) < kOf(req))
  /\ res' = Response(200, TRUE, [i \in DOMAIN outS |-> suggestionOf(outS[i])])
  /\ srvPc' = "done"
  /\ UNCHANGED <<db, webVars, req, data, rows, outS, admVars, mobVars, call>>

Next ==
  \/ SetAStart
  \/ SetAEnd
  \/ FetchEventsStart
  \/ FetchEventsOk
  \/ FetchEventsError
  \/ GetSuggestionsClick
  \/ AwaitedFetchOk
  \/ AwaitedFetchError
  \/ AwaitedFetchThrows
  \/ GetSuggestionsBadWindow
  \/ GetSuggestionsNoCandidates
  \/ GetSuggestionsScore
  \/ WebMmrStep
  \/ GetSuggestionsDone
  \/ AddEventNameRequired
  \/ AddEventBadDates
  \/ AddEventClick
  \/ AddEventInsertOk
  \/ AddEventInsertError
  \/ AddEventFetchOk
  \/ AddEventFetchError
  \/ AddEventFetchThrows
  \/ FetchSuggestionsClick
  \/ RequestArrives
  \/ ResponseLeaves
  \/ FetchSuggestionsOk
  \/ FetchSuggestionsJsonThrows
  \/ FetchSuggestionsRejects
  \/ HandlerNotPost
  \/ HandlerBadRequest
  \/ HandlerRpcError
  \/ HandlerScore
  \/ SrvMmrStep
  \/ HandlerRespond

Spec == Init /\ [][Next]_vars

\* The step GetSuggestionsScore as the program counter shows it: the call
\* that passed the window check and kept a candidate goes on to the while
\* loop.  GetSuggestionsScore is the one action that takes webPc from "run"
\* to "mmr", and it can be taken exactly when this step can.
GetSuggestionsScorePc ==
  /\ webPc = "run"
  /\ closure.aEnd > closure.aStart
  /\ Len(candidatesOf(closure.events, closure.aStart, closure.aEnd)) # 0
  /\ webPc' = "mmr"

\* What the scheduling gives each operation: a promise awaited settles (the
\* query, the insert, the fetch and the handler's calls answer or fail), and
\* code that can run does.  The continuation of addEvent waits while the
\* synchronous part of getSuggestions runs and is taken up when that part
\* has returned, before the next click is handled: its fairness is strong.
\* Nothing makes the user click.
Fairness ==
  /\ WF_vars(AwaitedFetchOk \/ AwaitedFetchError \/ AwaitedFetchThrows
               \/ GetSuggestionsBadWindow \/ GetSuggestionsNoCandidates
               \/ WebMmrStep \/ GetSuggestionsDone)
  /\ WF_webPc(GetSuggestionsScorePc)
  /\ SF_vars(AddEventInsertOk \/ AddEventInsertError
               \/ AddEventFetchOk \/ AddEventFetchError \/ AddEventFetchThrows)
  /\ WF_vars(RequestArrives \/ FetchSuggestionsRejects
               \/ HandlerNotPost \/ HandlerBadRequest \/ HandlerRpcError
               \/ HandlerScore \/ SrvMmrStep \/ HandlerRespond
               \/ ResponseLeaves
               \/ FetchSuggestionsOk \/ FetchSuggestionsJsonThrows)

\* The initial states in which the web app starts over an empty store with
\* the admin form in use and the initial tags, and the server alone gets a
\* request that is no POST.
InitLive ==
  /\ Init
  /\ webPc = "idle" =>
       /\ db = <<>> /\ addPc = "idle"
       /\ qTags = W_movie \o <<",", " ">> \o W_volleyball
  /\ (srvPc = "idle" /\ mobBody.method = "none") => req.method # "POST"

SpecLive == InitLive /\ [][Next]_vars /\ Fairness

----------------------------------------------------------------------------
(* The helpers called on their own *)

Tokens == {<<"a">>, <<"b">>, <<"c">>}

RECURSIVE SeqsUpTo(_, _)
SeqsUpTo(S, n) ==
  IF n = 0 THEN {<<>>}
  ELSE LET shorter == SeqsUpTo(S, n - 1)
       IN shorter \cup {Append(s, x) : s \in shorter, x \in S}

TokenLists == SeqsUpTo(Tokens, MaxTokens)

RawWords ==
  { W_cats, W_Cats, W_bus, W_glass, W_as, W_empty, W_dots, W_xs, W_Movies,
    W_movies, W_moviess, W_chess, W_film, W_cards, W_board_game, W_Catan_Night }

QueryTerms ==
  { W_movies, W_Movies, W_movie, W_moviess, W_volleyball, W_board_game,
    W_boardgame, W_poker, W_chess, W_cards }

\* Every word the synonym table lists for some key.
ListedSynonyms == UNION {Range(SYNONYMS[i].syns) : i \in DOMAIN SYNONYMS}

TagLists ==
  {<<>>, <<W_social>>}
    \cup {<<s>> : s \in ListedSynonyms}
    \cup {<<s, W_social>> : s \in ListedSynonyms}
    \cup {<<W_trivia, s>> : s \in ListedSynonyms}

EventNames == {W_empty, W_Quiz, W_Open_Gym}

InitPure ==
  /\ db = <<>>
  /\ WebIdle
  /\ SrvIdle
  /\ AdmIdle
  /\ MobIdle
  /\ call = NoCall

CallNormalizeWord ==
  /\ call.op = "none"
  /\ \E w \in RawWords :
       call' = [op |-> "normalizeWord", args |-> <<w>>, res |-> normalizeWord(w)]
  /\ UNCHANGED <<db, webVars, srvVars, admVars, mobVars>>

CallJaccard ==
  /\ call.op = "none"
  /\ \E A \in TokenLists, B \in TokenLists :
       call' = [op |-> "jaccard", args |-> <<A, B>>, res |-> jaccard(A, B)]
  /\ UNCHANGED <<db, webVars, srvVars, admVars, mobVars>>

CallTokenJaccard ==
  /\ call.op = "none"
  /\ \E A \in TokenLists, B \in TokenLists :
       call' = [op |-> "tokenJaccard", args |-> <<A, B>>, res |-> tokenJaccard(A, B)]
  /\ UNCHANGED <<db, webVars, srvVars, admVars, mobVars>>

CallTimeFit ==
  /\ call.op = "none"
  /\ \E A0 \in Times, A1 \in Times, s \in Times, e \in Times :
       call' = [op |-> "timeFit", args |-> <<A0, A1, s, e>>, res |-> timeFit(A0, A1, s, e)]
  /\ UNCHANGED <<db, webVars, srvVars, admVars, mobVars>>

\* The text score getSuggestions gives one event for a query of one term.
CallTextScore ==
  /\ call.op = "none"
  /\ \E term \in QueryTerms, name \in EventNames, tags \in TagLists :
       call' = [op |-> "textScore", args |-> <<term, name, tags>>,
                res |-> textScore(qTokensOf(<<term>>),
                                  EventRow(1, name, tags, 0, TickMs, 0))]
  /\ UNCHANGED <<db, webVars, srvVars, admVars, mobVars>>

NextPure ==
  \/ CallNormalizeWord
  \/ CallJaccard
  \/ CallTokenJaccard
  \/ CallTimeFit
  \/ CallTextScore

SpecPure == InitPure /\ [][NextPure]_vars

----------------------------------------------------------------------------
(* Claims about the two pipelines, checked under Spec *)

\* C1 as stated: for every query with k >= 1 and every candidate list, the
\* number of suggestions the handler and getSuggestions return is
\* min(k, number of candidates that survive the time-fit filter).
C1_SizeIsMinOfKAndSurvivors ==
  /\ (webPc = "idle" /\ infoMsg.kind = "found" /\ closure.k >= 1) =>
       LET evs == closure.events
           survivors ==
             {i \in DOMAIN evs :
                LET f == timeOverlapFrac(closure.aStart, closure.aEnd,
                                         evs[i].start_ts, evs[i].end_ts)
                IN 5 * f[1] > f[2]}
       IN Len(suggs) = Min(closure.k, Cardinality(survivors))
  /\ (srvPc = "done" /\ res.status = 200 /\ kOf(req) >= 1) =>
       LET survivors ==
             {i \in DOMAIN data :
                timeFit(req.aStart, req.aEnd, data[i].start_ts, data[i].end_ts)[1] > 0}
       IN Len(res.suggestions) = Min(kOf(req), Cardinality(survivors))

\* C1 as amended: for every query with k >= 1 and every candidate list, the
\* number of suggestions the handler and getSuggestions return is
\* min(k, 30, number of candidates that survive the time-fit filter): the
\* sorted candidates are cut to a pool of 30 before the selection.
C1_SizeIsMinOfKPoolAndSurvivors ==
  /\ (webPc = "idle" /\ infoMsg.kind = "found" /\ closure.k >= 1) =>
       LET evs == closure.events
           survivors ==
             {i \in DOMAIN evs :
                LET f == timeOverlapFrac(closure.aStart, closure.aEnd,
                                         evs[i].start_ts, evs[i].end_ts)
                IN 5 * f[1] > f[2]}
       IN Len(suggs) = Min(closure.k, Min(30, Cardinality(survivors)))
  /\ (srvPc = "done" /\ res.status = 200 /\ kOf(req) >= 1) =>
       LET survivors ==
             {i \in DOMAIN data :
                timeFit(req.aStart, req.aEnd, data[i].start_ts, data[i].end_ts)[1] > 0}
       IN Len(res.suggestions) = Min(kOf(req), Min(30, Cardinality(survivors)))

\* The handler answers a request for 31 suggestions over 31 rows with 30.
C1_Witness ==
  /\ srvPc = "done" /\ res.status = 200
  /\ kOf(req) > 30 /\ Len(data) > 30
  /\ Len(res.suggestions) = 30

\* C3 as stated: a query with missing or empty interest terms, with k < 1 or
\* with a window whose end is not after its start is rejected before any
\* candidate is scored and no suggestion list is produced for it, in the
\* handler and in getSuggestions: no such query reaches the selection loop
\* or a list of suggestions.
C3_InvalidQueryRejected ==
  /\ (webPc = "mmr" \/ (webPc = "idle" /\ infoMsg.kind = "found")) =>
       /\ qTagArrOf(closure.qTags) # <<>>
       /\ closure.k >= 1
       /\ closure.aEnd > closure.aStart
  /\ (srvPc = "mmr" \/ (srvPc = "done" /\ res.status = 200)) =>
       /\ req.tagsIsArray /\ req.tags # <<>>
       /\ kOf(req) >= 1
       /\ req.aEnd > req.aStart

C5_NoDuplicateAndPoolPreserved ==
  /\ (webPc = "mmr"
      /\ \A i, j \in DOMAIN closure.events :
           closure.events[i].id = closure.events[j].id => i = j) =>
       LET initial == poolOf(candidates, qTagArrOf(closure.qTags))
       IN /\ \A i, j \in DOMAIN out : out[i].id = out[j].id => i = j
          /\ Len(out) + Len(pool) = Len(initial)
          /\ {out[i] : i \in DOMAIN out} \cup {pool[i].row : i \in DOMAIN pool}
               = {initial[i].row : i \in DOMAIN initial}
  /\ (srvPc = "mmr" /\ \A i, j \in DOMAIN data : data[i].id = data[j].id => i = j) =>
       LET initial == rowsOf(data, req.aStart, req.aEnd)
       IN /\ \A i, j \in DOMAIN outS : outS[i].row.id = outS[j].row.id => i = j
          /\ Len(outS) + Len(rows) = Len(initial)
          /\ {outS[i] : i \in DOMAIN outS} \cup {rows[i] : i \in DOMAIN rows}
               = {initial[i] : i \in DOMAIN initial}

\* Two selection steps are done and candidates remain in the pool.
C5_Witness ==
  /\ webPc = "mmr"
  /\ Len(out) >= 2
  /\ pool # <<>>

\* C6 as stated: when zero candidates survive filtering, the pipeline ends
\* with an empty suggestion list and an informational status and signals no
\* error: getSuggestions ends with suggs = [], infoMsg set and errorMsg null,
\* the handler with status 200 and suggestions = [].
C6_EmptyIsNoError ==
  [][ /\ ( /\ webPc \in {"run", "mmr"} /\ webPc' = "idle"
           /\ closure.aEnd > closure.aStart
           /\ \A i \in DOMAIN closure.events :
                LET f == timeOverlapFrac(closure.aStart, closure.aEnd,
                                         closure.events[i].start_ts,
                                         closure.events[i].end_ts)
                IN ~(5 * f[1] > f[2]) )
         => (suggs' = <<>> /\ infoMsg' # NoMsg /\ errorMsg' = NoMsg)
      /\ ( /\ srvPc = "mmr" /\ srvPc' = "done"
           /\ \A i \in DOMAIN data :
                ~(timeFit(req.aStart, req.aEnd, data[i].start_ts, data[i].end_ts)[1] > 0) )
         => (res'.status = 200 /\ res'.hasSuggestions /\ res'.suggestions = <<>>)
    ]_vars

\* C6 as amended: when zero candidates survive filtering, getSuggestions ends
\* with suggs = [] and infoMsg set and sets no error of its own: errorMsg is
\* null, or the error another operation (a fetchEvents or an addEvent that
\* failed) set while it awaited; the handler ends with status 200 and
\* suggestions = [].
C6_EmptyAddsNoError ==
  [][ /\ ( /\ webPc \in {"run", "mmr"} /\ webPc' = "idle"
           /\ closure.aEnd > closure.aStart
           /\ \A i \in DOMAIN closure.events :
                LET f == timeOverlapFrac(closure.aStart, closure.aEnd,
                                         closure.events[i].start_ts,
                                         closure.events[i].end_ts)
                IN ~(5 * f[1] > f[2]) )
         => /\ suggs' = <<>>
            /\ infoMsg' # NoMsg
            /\ errorMsg'.kind \in {"null", "fetchError", "nameRequired",
                                  "endAfterStart", "insertError", "thrown"}
            /\ errorMsg' = errorMsg
      /\ ( /\ srvPc = "mmr" /\ srvPc' = "done"
           /\ \A i \in DOMAIN data :
                ~(timeFit(req.aStart, req.aEnd, data[i].start_ts, data[i].end_ts)[1] > 0) )
         => (res'.status = 200 /\ res'.hasSuggestions /\ res'.suggestions = <<>>)
    ]_vars

\* getSuggestions has ended over loaded events none of which passes the
\* filter: the list is empty, the status says so, no error is shown.
C6_Witness ==
  /\ webPc = "idle" /\ infoMsg.kind = "noOverlap"
  /\ closure.events # <<>>
  /\ closure.aEnd > closure.aStart
  /\ suggs = <<>> /\ errorMsg = NoMsg

\* C9: every step of either selection loop moves to the output a remaining
\* candidate e of the largest value 0.7 * score(e) - 0.3 * redundancy(e),
\* redundancy(e) being the largest tag Jaccard of e with the items chosen so
\* far (0 when none is chosen), and of the candidates of that value the one
\* earliest in the pool.  The values are compared in thousandths (web) and
\* hundredths (server) of a fixed-point part.
C9_StepTakesFirstMaximum ==
  [][ /\ (webPc = "mmr" /\ out' # out) =>
           LET J(e, x) ==
                 LET A == {normalizeWord(e.tags[n]) : n \in DOMAIN e.tags}
                     B == {normalizeWord(x.tags[n]) : n \in DOMAIN x.tags}
                 IN IF A \cup B = {} THEN 0
                    ELSE (Cardinality(A \cap B) * Unit) \div Cardinality(A \cup B)
               red(e) ==
                 IF out = <<>> THEN 0
                 ELSE CHOOSE r \in {J(e, out[n]) : n \in DOMAIN out} :
                        \A n \in DOMAIN out : J(e, out[n]) <= r
               value(i) == 7 * pool[i].score - 3 * 100 * red(pool[i].row)
           IN \E i \in DOMAIN pool :
                /\ \A j \in DOMAIN pool : value(j) <= value(i)
                /\ \A j \in 1..(i - 1) : value(j) < value(i)
                /\ out' = Append(out, pool[i].row)
                /\ pool' = [n \in 1..(Len(pool) - 1) |->
                              IF n < i THEN pool[n] ELSE pool[n + 1]]
      /\ (srvPc = "mmr" /\ outS' # outS) =>
           LET J(e, x) ==
                 LET A == {e.tags[n] : n \in DOMAIN e.tags}
                     B == {x.tags[n] : n \in DOMAIN x.tags}
                 IN IF A \cup B = {} THEN 0
                    ELSE (Cardinality(A \cap B) * Unit) \div Cardinality(A \cup B)
               red(e) ==
                 IF outS = <<>> THEN 0
                 ELSE CHOOSE r \in {J(e, outS[n].row) : n \in DOMAIN outS} :
                        \A n \in DOMAIN outS : J(e, outS[n].row) <= r
               value(i) == 7 * rows[i].score - 3 * 10 * red(rows[i].row)
           IN \E i \in DOMAIN rows :
                /\ \A j \in DOMAIN rows : value(j) <= value(i)
                /\ \A j \in 1..(i - 1) : value(j) < value(i)
                /\ outS' = Append(outS, rows[i])
                /\ rows' = [n \in 1..(Len(rows) - 1) |->
                              IF n < i THEN rows[n] ELSE rows[n + 1]]
    ]_vars

\* A step was taken and the next one has to choose between two remaining
\* candidates of the same largest value, both redundant with a chosen item.
C9_Witness ==
  /\ webPc = "mmr" /\ out # <<>> /\ Len(out) < closure.k
  /\ \E i, j \in DOMAIN pool :
       /\ i < j
       /\ webVal(pool[i], out) = webVal(pool[j], out)
       /\ \A n \in DOMAIN pool : webVal(pool[n], out) <= webVal(pool[i], out)
       /\ webSim(pool[i], out) > 0

----------------------------------------------------------------------------
(* The claim about the loading flags, checked under SpecLive *)

\* C11: each loading flag (loadingSug, loadingAdd, loading) is true only
\* while a call of its operation (getSuggestions, addEvent,
\* fetchSuggestions) has not ended; every step that ends a call, on any of
\* its paths, leaves the flag false; and a flag that is true is false again
\* later, so the screen never stays in the loading state.
C11_LoadingFlagsEnd ==
  /\ [](loadingSug <=> webPc \in {"await", "run", "mmr"})
  /\ [](loadingAdd <=> addPc \in {"insert", "fetch"})
  /\ [](loading => mobCalls > 0)
  /\ [][ /\ (webPc \in {"await", "run", "mmr"} /\ webPc' = "idle") => ~loadingSug'
         /\ (addPc \in {"insert", "fetch"} /\ addPc' = "idle") => ~loadingAdd'
         /\ mobCalls' < mobCalls => ~loading' ]_vars
  /\ (loadingSug ~> ~loadingSug)
  /\ (loadingAdd ~> ~loadingAdd)
  /\ (loading ~> ~loading)

\* getSuggestions has ended through its catch, the flag false.
C11_WitnessThrown ==
  /\ webPc = "idle" /\ errorMsg.kind = "thrown" /\ closure # NoClosure
  /\ ~loadingSug /\ ~loadingAdd /\ addPc = "idle"

----------------------------------------------------------------------------
(* Claims about the helpers, checked under SpecPure *)

\* C2: under the containment-leftover policy, for every window [A0, A1] with
\* A1 > A0, an event with s = A0 and e = A1 has timeFit 1, and every event
\* entirely outside the window (e <= A0 or s >= A1, with e > s) has timeFit 0.
C2_TimeFitBounds ==
  call.op = "timeFit" =>
    LET A0 == call.args[1]
        A1 == call.args[2]
        s == call.args[3]
        e == call.args[4]
    IN A1 > A0 =>
         /\ (s = A0 /\ e = A1) => call.res[1] = call.res[2]
         /\ (e > s /\ (e <= A0 \/ s >= A1)) => call.res[1] = 0

\* C7: both Jaccard functions are defined (never 0/0) and lie in 0..1 for
\* all token lists, duplicates allowed; they give 1 for a non-empty list
\* against itself and 0 for two empty lists.
C7_JaccardBounds ==
  call.op \in {"jaccard", "tokenJaccard"} =>
    LET A == call.args[1]
        B == call.args[2]
        n == call.res[1]
        d == call.res[2]
    IN /\ d > 0
       /\ 0 <= n /\ n <= d
       /\ (A = B /\ A # <<>>) => n = d
       /\ (A = <<>> /\ B = <<>>) => n = 0

\* A list with a repeated token scored against itself gives 1.
C7_Witness ==
  /\ call.op = "jaccard"
  /\ call.args[1] = call.args[2]
  /\ Len(call.args[1]) > Cardinality(Range(call.args[1]))
  /\ call.res[1] = call.res[2]

\* C8: under the lexical strategy, a query term whose normalized form is a
\* key of the synonym table gives a text score above 0 to every candidate
\* tagged with a synonym listed for that key, whatever its name and other
\* tags; so does "movies" to a candidate tagged "film".
C8_SynonymMatch ==
  call.op = "textScore" =>
    LET term == call.args[1]
        tags == call.args[3]
    IN (\E i \in DOMAIN tags : tags[i] \in Range(synonymsOf(normalizeWord(term))))
         => call.res > 0

\* "movies" against a candidate whose only tag is "film", the name sharing
\* no token with the query.
C8_Witness ==
  /\ call.op = "textScore"
  /\ call.args = <<W_movies, W_Quiz, <<W_film>>>>
  /\ call.res > 0

\* C10 as stated: normalizeWord removes the trailing 's' of the cleaned token
\* exactly when the token left after the removal is longer than 3.
C10_RemovesWhenResultLonger ==
  call.op = "normalizeWord" =>
    LET c == cleanWord(call.args[1])
    IN call.res = IF c # <<>> /\ c[Len(c)] = "s" /\ Len(c) - 1 > 3
                  THEN SubSeq(c, 1, Len(c) - 1) ELSE c

\* C10 as amended: normalizeWord removes the trailing 's' of the cleaned
\* token exactly when the cleaned token itself is longer than 3, so that the
\* token left has length 3 or more; every other cleaned token is returned
\* unchanged.
C10_RemovesWhenCleanedLonger ==
  call.op = "normalizeWord" =>
    LET c == cleanWord(call.args[1])
    IN call.res = IF c # <<>> /\ c[Len(c)] = "s" /\ Len(c) >= 4
                  THEN SubSeq(c, 1, Len(c) - 1) ELSE c

\* A cleaned token of four characters loses its 's'.
C10_Witness ==
  /\ call.op = "normalizeWord"
  /\ Len(cleanWord(call.args[1])) = 4
  /\ Len(call.res) = 3
  /\ call.args[1] # cleanWord(call.args[1])

====
